---- MODULE Spec2Model ----
(***************************************************************************)
(* The Universal Machine interpreter of src/um: Machine (machine.rs),      *)
(* Instruction::decode_from (instructions.rs), UmError (errors.rs) and the *)
(* host's main (main.rs).                                                  *)
(*                                                                         *)
(* One step of the model is one iteration of the loop of Machine::execute: *)
(* fetch_instruction, decode_from, execute_instruction and the match on    *)
(* the result.  There is one action per Instruction variant, one for the   *)
(* fetch that returns None and one for the decode that fails.              *)
(*                                                                         *)
(* Word is u32 in the source.  The model keeps the layout of a word (the   *)
(* operator number in the top 4 bits, the three register fields in the low *)
(* 9 bits, for operator 13 a register field right under the operator       *)
(* number and the immediate under it) and all arithmetic modulo 2^WordBits,*)
(* with WordBits scaled down from 32 so that the id counter's wrap-around  *)
(* is reachable.  Sequences are 1-based: offset o of a Vec is index o + 1. *)
(***************************************************************************)
EXTENDS Integers, Sequences, FiniteSets, TLC

\* ------------------------------------------------------------------ bounds
\* Width of a Word in bits (32 in the source, machine.rs:7).
WordBits == 13
\* Longest generated initial program, in words.
MaxProgLen == 3
\* Longest generated standard input, in bytes.
MaxInputLen == 1
\* Output is followed while fewer than this many bytes have been written.
MaxOutputLen == 3
\* Bits of a byte of the program image (the code: 8); four bytes make a word of the image.
ByteBits == 3
\* Longest program image, in bytes.
MaxImageLen == 5

\* --------------------------------------------------------------- constants
RECURSIVE Pow2(_)
Pow2(n) == IF n = 0 THEN 1 ELSE 2 * Pow2(n - 1)

WordMod == Pow2(WordBits)
\* u32::max_value()
MaxWord == WordMod - 1
Word == 0..MaxWord
\* word >> 28: the operator number is the top 4 bits of the word
OpShift == Pow2(WordBits - 4)
\* word >> 25: operator 13 keeps its register in the 3 bits under the operator number
LoadRegShift == Pow2(WordBits - 7)
NumRegisters == 8
Reg == 0..(NumRegisters - 1)
\* the largest value Output accepts
MaxOutput == 255
\* The byte that makes the line buffer of standard output flush.
NewLine == 10
None == "None"

\* --------------------------------------------------------- bit operations
RECURSIVE BitAnd(_, _, _)
\* x & y over the low n bits
BitAnd(x, y, n) ==
    IF n = 0 THEN 0
    ELSE (IF x % 2 = 1 /\ y % 2 = 1 THEN 1 ELSE 0) + 2 * BitAnd(x \div 2, y \div 2, n - 1)

\* !(x & y) on a Word
nand(x, y) == MaxWord - BitAnd(x, y, WordBits)
\* wrapping_add of an addition that stops at the largest word.
wrapping_add_saturating(x, y) == IF x + y > MaxWord THEN MaxWord ELSE x + y
\* x.wrapping_add(y)
wrapping_add(x, y) == (x + y) % WordMod
\* x.wrapping_mul(y)
wrapping_mul(x, y) == (x * y) % WordMod
\* divide of a machine that takes the words for signed integers (i32), whose
\* division rounds toward zero.
divide_signed(x, y) ==
    LET signed(w) == IF w >= WordMod \div 2 THEN w - WordMod ELSE w
        abs(n) == IF n < 0 THEN 0 - n ELSE n
        q == abs(signed(x)) \div abs(signed(y))
    IN  IF (signed(x) < 0) = (signed(y) < 0) THEN q % WordMod ELSE (WordMod - q) % WordMod
\* x_val / y_val on u32, for y_val # 0
divide(x, y) == x \div y

\* ------------------------------------------------------ instruction decode
\* parse_standard_abc with the shifts of the second and the third field exchanged.
parse_standard_abc_swapped(word) ==
    [a |-> (word \div 64) % 8, b |-> word % 8, c |-> (word \div 8) % 8]

\* parse_standard_abc with a mask of four bits on the first field.
parse_standard_abc_wide_mask(word) ==
    [a |-> (word \div 64) % 16, b |-> (word \div 8) % 8, c |-> word % 8]

parse_standard_abc(word) ==
    [a |-> (word \div 64) % 8, b |-> (word \div 8) % 8, c |-> word % 8]

decode_from(word) ==
    LET op_number == word \div OpShift
        abc == parse_standard_abc(word)
    IN  CASE op_number = 0 ->
               [tag |-> "ConditionalMove", dest |-> abc.a, src |-> abc.b, test |-> abc.c]
          [] op_number = 1 ->
               [tag |-> "ArrayIndex", dest |-> abc.a, offset |-> abc.c, array |-> abc.b]
          [] op_number = 2 ->
               [tag |-> "ArrayAmend", array |-> abc.a, offset |-> abc.b, val |-> abc.c]
          [] op_number = 3 -> [tag |-> "Add", dest |-> abc.a, x |-> abc.b, y |-> abc.c]
          [] op_number = 4 -> [tag |-> "Multiply", dest |-> abc.a, x |-> abc.b, y |-> abc.c]
          [] op_number = 5 -> [tag |-> "Divide", dest |-> abc.a, x |-> abc.b, y |-> abc.c]
          [] op_number = 6 -> [tag |-> "Nand", dest |-> abc.a, x |-> abc.b, y |-> abc.c]
          [] op_number = 7 -> [tag |-> "Halt"]
          [] op_number = 8 -> [tag |-> "Allocate", size |-> abc.c, result |-> abc.b]
          [] op_number = 9 -> [tag |-> "Abandon", which |-> abc.c]
          [] op_number = 10 -> [tag |-> "Output", val |-> abc.c]
          [] op_number = 11 -> [tag |-> "Input", dest |-> abc.c]
          [] op_number = 12 -> [tag |-> "LoadProgram", from |-> abc.b, finger |-> abc.c]
          [] op_number = 13 ->
               [tag |-> "LoadRegister",
                dest |-> (word \div LoadRegShift) % 8,
                val |-> word % LoadRegShift]
          [] OTHER -> [tag |-> "UnknownInstruction", inst |-> word]

\* The word that decodes to operator op with register fields a, b, c.
Enc(op, a, b, c) == op * OpShift + a * 64 + b * 8 + c
\* The word that decodes to LoadRegister { dest: a, val: v }.
EncLoad(a, v) == 13 * OpShift + a * LoadRegShift + v

\* ------------------------------------------------------------------- state
VARIABLES
    finger,         \* Machine.finger
    registers,      \* Machine.registers
    program,        \* Machine.program
    data_arrays,    \* Machine.data_arrays: a function from the live ids to their Vec
    next_array_id,  \* Machine.next_array_id
    stdin,          \* the bytes of standard input not yet read
    stdout,         \* the bytes written to standard output so far
    status,         \* "running", "halted" (execute returned Ok) or "error" (it returned Err)
    error,          \* the UmError execute returned, None otherwise
    last,           \* history: the instruction of the last step, its result, the registers
                    \* before it, and the variant of the step before
    loaded_from,    \* history: the id the program was last replaced from, 0 if never
    flushed,        \* how many bytes of stdout have left the process's line buffer
    program_bytes   \* the image main read and handed to Machine::new, bytes of ByteBits bits

vars == <<finger, registers, program, data_arrays, next_array_id,
          stdin, stdout, status, error, last, loaded_from, flushed, program_bytes>>

\* ------------------------------------------------------------- accessors
IsErr(res) == res \notin {None, "Yes", "No"}

RECURSIVE FirstErr(_)
\* What a chain of `?` propagates: the first error of the results, None if there is none.
FirstErr(results) ==
    IF results = <<>> THEN None
    ELSE IF Head(results) # None THEN Head(results) ELSE FirstErr(Tail(results))

fetch_instruction ==
    IF finger >= Len(program)
    THEN [some |-> FALSE, word |-> 0, finger |-> finger]
    ELSE [some |-> TRUE, word |-> program[finger + 1], finger |-> finger + 1]

read_register(idx) ==
    IF idx >= NumRegisters
    THEN [err |-> "InvalidRegisterIndex", val |-> 0]
    ELSE [err |-> None, val |-> registers[idx]]

set_register(regs, idx, val) ==
    IF idx >= NumRegisters
    THEN [err |-> "InvalidRegisterIndex", regs |-> regs]
    ELSE [err |-> None, regs |-> [regs EXCEPT ![idx] = val]]

\* read_array that reports an offset past the end of the program as ArrayOutOfRange.
read_array_one_range_error(array_id, offset) ==
    IF array_id = 0
    THEN IF offset < Len(program)
         THEN [err |-> None, val |-> program[offset + 1]]
         ELSE [err |-> "ArrayOutOfRange", val |-> 0]
    ELSE IF array_id \in DOMAIN data_arrays
         THEN IF offset < Len(data_arrays[array_id])
              THEN [err |-> None, val |-> data_arrays[array_id][offset + 1]]
              ELSE [err |-> "ArrayOutOfRange", val |-> 0]
         ELSE [err |-> "InvalidArrayId", val |-> 0]

read_array(array_id, offset) ==
    IF array_id = 0
    THEN IF offset < Len(program)
         THEN [err |-> None, val |-> program[offset + 1]]
         ELSE [err |-> "ProgramOutOfRange", val |-> 0]
    ELSE IF array_id \in DOMAIN data_arrays
         THEN IF offset < Len(data_arrays[array_id])
              THEN [err |-> None, val |-> data_arrays[array_id][offset + 1]]
              ELSE [err |-> "ArrayOutOfRange", val |-> 0]
         ELSE [err |-> "InvalidArrayId", val |-> 0]

\* write_array on a program that shares its storage with the array it was loaded
\* from: a write to that array shows in the program too.
write_array_shared(array_id, offset, val) ==
    IF array_id = 0
    THEN IF offset < Len(program)
         THEN [err |-> None,
               program |-> [program EXCEPT ![offset + 1] = val],
               data_arrays |-> data_arrays]
         ELSE [err |-> "ProgramOutOfRange", program |-> program, data_arrays |-> data_arrays]
    ELSE IF array_id \in DOMAIN data_arrays
         THEN IF offset < Len(data_arrays[array_id])
              THEN [err |-> None,
                    program |-> IF array_id = loaded_from /\ offset < Len(program)
                                THEN [program EXCEPT ![offset + 1] = val]
                                ELSE program,
                    data_arrays |-> [data_arrays EXCEPT ![array_id][offset + 1] = val]]
              ELSE [err |-> "ArrayOutOfRange", program |-> program, data_arrays |-> data_arrays]
         ELSE [err |-> "InvalidArrayId", program |-> program, data_arrays |-> data_arrays]

\* write_array of a machine whose program shares its storage with the array it
\* was loaded from, for the writes to the program: they reach the array too.
write_array_program_shared(array_id, offset, val) ==
    IF array_id = 0
    THEN IF offset < Len(program)
         THEN [err |-> None,
               program |-> [program EXCEPT ![offset + 1] = val],
               data_arrays |-> IF loaded_from \in DOMAIN data_arrays
                                  /\ offset < Len(data_arrays[loaded_from])
                               THEN [data_arrays EXCEPT ![loaded_from][offset + 1] = val]
                               ELSE data_arrays]
         ELSE [err |-> "ProgramOutOfRange", program |-> program, data_arrays |-> data_arrays]
    ELSE IF array_id \in DOMAIN data_arrays
         THEN IF offset < Len(data_arrays[array_id])
              THEN [err |-> None,
                    program |-> program,
                    data_arrays |-> [data_arrays EXCEPT ![array_id][offset + 1] = val]]
              ELSE [err |-> "ArrayOutOfRange", program |-> program, data_arrays |-> data_arrays]
         ELSE [err |-> "InvalidArrayId", program |-> program, data_arrays |-> data_arrays]

write_array(array_id, offset, val) ==
    IF array_id = 0
    THEN IF offset < Len(program)
         THEN [err |-> None,
               program |-> [program EXCEPT ![offset + 1] = val],
               data_arrays |-> data_arrays]
         ELSE [err |-> "ProgramOutOfRange", program |-> program, data_arrays |-> data_arrays]
    ELSE IF array_id \in DOMAIN data_arrays
         THEN IF offset < Len(data_arrays[array_id])
              THEN [err |-> None,
                    program |-> program,
                    data_arrays |-> [data_arrays EXCEPT ![array_id][offset + 1] = val]]
              ELSE [err |-> "ArrayOutOfRange", program |-> program, data_arrays |-> data_arrays]
         ELSE [err |-> "InvalidArrayId", program |-> program, data_arrays |-> data_arrays]

\* HashMap::insert: the entry under key is set, replacing the one that was there.
insert(arrays, key, array) ==
    [k \in DOMAIN arrays \cup {key} |-> IF k = key THEN array ELSE arrays[k]]

\* HashMap::remove
remove(arrays, key) == [k \in DOMAIN arrays \ {key} |-> arrays[k]]

\* vec![0; size]
zeros(size) == [i \in 1..size |-> 0]

\* advance_array_id without the step over 0.
advance_array_id_no_skip(id) == wrapping_add(id, 1)

\* The id counter after an Allocate: wrapping_add(1), and 0 is skipped.
advance_array_id(id) ==
    LET next == wrapping_add(id, 1)
    IN  IF next = 0 THEN next + 1 ELSE next

\* abandon that checks the id and leaves the entry in the table.
abandon_keeps_entry(which_val) ==
    IF which_val = 0
    THEN [err |-> "CannotAbandonProgram", data_arrays |-> data_arrays]
    ELSE IF which_val \in DOMAIN data_arrays
         THEN [err |-> None, data_arrays |-> data_arrays]
         ELSE [err |-> "InvalidArrayId", data_arrays |-> data_arrays]

\* What Abandon does with the table.
abandon(which_val) ==
    IF which_val = 0
    THEN [err |-> "CannotAbandonProgram", data_arrays |-> data_arrays]
    ELSE IF which_val \in DOMAIN data_arrays
         THEN [err |-> None, data_arrays |-> remove(data_arrays, which_val)]
         ELSE [err |-> "InvalidArrayId", data_arrays |-> data_arrays]

\* load_program that replaces the program and leaves the finger where the fetch put it.
load_program_keeps_finger(array_id, finger_val, fetched) ==
    IF array_id = 0
    THEN [err |-> None, program |-> program, finger |-> finger_val]
    ELSE IF array_id \in DOMAIN data_arrays
         THEN [err |-> None, program |-> data_arrays[array_id], finger |-> fetched]
         ELSE [err |-> "InvalidArrayId", program |-> program, finger |-> fetched]

\* load_program that, for id 0, reloads the program from the table like any other id.
load_program_no_fast_path(array_id, finger_val, fetched) ==
    IF array_id \in DOMAIN data_arrays
    THEN [err |-> None, program |-> data_arrays[array_id], finger |-> finger_val]
    ELSE [err |-> "InvalidArrayId", program |-> program, finger |-> fetched]

\* load_program of a LoadProgram that sets the finger before it looks the array up.
load_program_sets_finger_first(array_id, finger_val, fetched) ==
    IF array_id = 0
    THEN [err |-> None, program |-> program, finger |-> finger_val]
    ELSE IF array_id \in DOMAIN data_arrays
         THEN [err |-> None, program |-> data_arrays[array_id], finger |-> finger_val]
         ELSE [err |-> "InvalidArrayId", program |-> program, finger |-> finger_val]

\* What LoadProgram does with the program and the finger; fetched is the finger
\* fetch_instruction left.
load_program(array_id, finger_val, fetched) ==
    IF array_id = 0
    THEN [err |-> None, program |-> program, finger |-> finger_val]
    ELSE IF array_id \in DOMAIN data_arrays
         THEN [err |-> None, program |-> data_arrays[array_id], finger |-> finger_val]
         ELSE [err |-> "InvalidArrayId", program |-> program, finger |-> fetched]

\* The bytes print!("{}", c) writes for the char of code point c < 256: its UTF-8
\* encoding, one byte below 0x80 and two bytes from 0x80 on.
utf8(c) ==
    IF c < 128 THEN <<c>> ELSE <<192 + (c \div 64), 128 + (c % 64)>>

\* read_byte of a machine that looks at the next byte and leaves it in the stream.
read_byte_peeks ==
    IF stdin = <<>>
    THEN [some |-> FALSE, byte |-> 0, rest |-> stdin]
    ELSE [some |-> TRUE, byte |-> Head(stdin), rest |-> stdin]

\* stdin().bytes().next(): the next byte, or None at end of input.
read_byte ==
    IF stdin = <<>>
    THEN [some |-> FALSE, byte |-> 0, rest |-> stdin]
    ELSE [some |-> TRUE, byte |-> Head(stdin), rest |-> Tail(stdin)]

\* next_status of a loop that drops the error of an instruction and goes on.
next_status_ignores_error(res) ==
    IF res = "No" THEN "halted" ELSE "running"

\* The loop of execute on a result: Continue::Yes goes on, Continue::No returns Ok,
\* an error returns Err (and main's unwrap panics).
next_status(res) ==
    IF res = "Yes" THEN "running"
    ELSE IF res = "No" THEN "halted"
    ELSE "error"

\* The host's exit status: 0 when execute returns Ok, the panic's 101 on Err.
exit_code == IF status = "error" THEN 101 ELSE 0

\* ------------------------------------------------------------ the machine
\* The step fetches a word and it decodes to the variant tag.
Fetched(tag) ==
    /\ status = "running"
    /\ fetch_instruction.some
    /\ decode_from(fetch_instruction.word).tag = tag

\* The instruction of the step.
Inst == decode_from(fetch_instruction.word)

\* print! writes to the process's Stdout, a LineWriter: the bytes written stay in its
\* buffer until a newline is written, and the runtime flushes the buffer when main
\* returns or panics (exits tells that). The buffer's capacity, 1024 bytes, is
\* beyond the outputs of the runs checked.
line_writer(written, exits) ==
    IF exits \/ (\E i \in 1..Len(written) : written[i] = NewLine)
    THEN Len(stdout) + Len(written)
    ELSE flushed

\* The end of the step: what the loop of execute does with the result res, after
\* the step has written the bytes written to standard output.
FinishOut(res, written) ==
    /\ status' = next_status(res)
    /\ error' = IF IsErr(res) THEN res ELSE None
    /\ last' = [inst |-> Inst, res |-> res, regs |-> registers,
                prev |-> last.inst.tag]
    /\ flushed' = line_writer(written, next_status(res) # "running")
    /\ program_bytes' = program_bytes

\* The end of a step that writes nothing.
Finish(res) == FinishOut(res, <<>>)

\* The result of an operator whose accessors returned errs: the first error, or Continue::Yes.
Result(errs) == IF FirstErr(errs) = None THEN "Yes" ELSE FirstErr(errs)

\* FetchNone of a loop that takes a finger past the end of the program for an error.
FetchNoneIsError ==
    /\ status = "running"
    /\ ~fetch_instruction.some
    /\ status' = "error"
    /\ error' = "ProgramOutOfRange"
    /\ last' = [inst |-> [tag |-> "None"], res |-> "ProgramOutOfRange", regs |-> registers,
                prev |-> last.inst.tag]
    /\ flushed' = line_writer(<<>>, TRUE)
    /\ UNCHANGED <<finger, registers, program, data_arrays, next_array_id,
                   stdin, stdout, loaded_from, program_bytes>>

\* fetch_instruction returns None: execute returns Ok(()).
FetchNone ==
    /\ status = "running"
    /\ ~fetch_instruction.some
    /\ status' = "halted"
    /\ last' = [inst |-> [tag |-> "None"], res |-> "No", regs |-> registers,
                prev |-> last.inst.tag]
    /\ flushed' = line_writer(<<>>, TRUE)
    /\ UNCHANGED <<finger, registers, program, data_arrays, next_array_id,
                   stdin, stdout, error, loaded_from, program_bytes>>

\* decode_from returns Err(UnknownInstruction): execute returns it.
DecodeError ==
    /\ Fetched("UnknownInstruction")
    /\ finger' = fetch_instruction.finger
    /\ Finish("UnknownInstruction")
    /\ UNCHANGED <<registers, program, data_arrays, next_array_id, stdin, stdout, loaded_from>>

ConditionalMove ==
    /\ Fetched("ConditionalMove")
    /\ LET test_val == read_register(Inst.test)
           src_val == read_register(Inst.src)
           set == set_register(registers, Inst.dest, src_val.val)
           errs == IF test_val.err = None /\ test_val.val # 0
                   THEN <<test_val.err, src_val.err, set.err>>
                   ELSE <<test_val.err>>
       IN  /\ registers' = IF test_val.err = None /\ test_val.val # 0 /\ src_val.err = None
                           THEN set.regs
                           ELSE registers
           /\ Finish(Result(errs))
    /\ finger' = fetch_instruction.finger
    /\ UNCHANGED <<program, data_arrays, next_array_id, stdin, stdout, loaded_from>>

ArrayIndex ==
    /\ Fetched("ArrayIndex")
    /\ LET offset_val == read_register(Inst.offset)
           array_id == read_register(Inst.array)
           val == read_array(array_id.val, offset_val.val)
           set == set_register(registers, Inst.dest, val.val)
           errs == <<offset_val.err, array_id.err, val.err, set.err>>
       IN  /\ registers' = IF FirstErr(errs) = None THEN set.regs ELSE registers
           /\ Finish(Result(errs))
    /\ finger' = fetch_instruction.finger
    /\ UNCHANGED <<program, data_arrays, next_array_id, stdin, stdout, loaded_from>>

ArrayAmend ==
    /\ Fetched("ArrayAmend")
    /\ LET offset_val == read_register(Inst.offset)
           array_id == read_register(Inst.array)
           val_val == read_register(Inst.val)
           written == write_array(array_id.val, offset_val.val, val_val.val)
           read_errs == <<offset_val.err, array_id.err, val_val.err>>
       IN  /\ program' = IF FirstErr(read_errs) = None THEN written.program ELSE program
           /\ data_arrays' =
                  IF FirstErr(read_errs) = None THEN written.data_arrays ELSE data_arrays
           /\ Finish(Result(read_errs \o <<written.err>>))
    /\ finger' = fetch_instruction.finger
    /\ UNCHANGED <<registers, next_array_id, stdin, stdout, loaded_from>>

Add ==
    /\ Fetched("Add")
    /\ LET x_val == read_register(Inst.x)
           y_val == read_register(Inst.y)
           result == wrapping_add(x_val.val, y_val.val)
           set == set_register(registers, Inst.dest, result)
           errs == <<x_val.err, y_val.err, set.err>>
       IN  /\ registers' = IF FirstErr(errs) = None THEN set.regs ELSE registers
           /\ Finish(Result(errs))
    /\ finger' = fetch_instruction.finger
    /\ UNCHANGED <<program, data_arrays, next_array_id, stdin, stdout, loaded_from>>

Multiply ==
    /\ Fetched("Multiply")
    /\ LET x_val == read_register(Inst.x)
           y_val == read_register(Inst.y)
           result == wrapping_mul(x_val.val, y_val.val)
           set == set_register(registers, Inst.dest, result)
           errs == <<x_val.err, y_val.err, set.err>>
       IN  /\ registers' = IF FirstErr(errs) = None THEN set.regs ELSE registers
           /\ Finish(Result(errs))
    /\ finger' = fetch_instruction.finger
    /\ UNCHANGED <<program, data_arrays, next_array_id, stdin, stdout, loaded_from>>

Divide ==
    /\ Fetched("Divide")
    /\ LET x_val == read_register(Inst.x)
           y_val == read_register(Inst.y)
           read_errs == <<x_val.err, y_val.err>>
           zero == FirstErr(read_errs) = None /\ y_val.val = 0
           set == set_register(registers, Inst.dest, divide(x_val.val, y_val.val))
           errs == IF zero THEN <<"DivideByZero">> ELSE read_errs \o <<set.err>>
       IN  /\ registers' = IF FirstErr(errs) = None THEN set.regs ELSE registers
           /\ Finish(Result(errs))
    /\ finger' = fetch_instruction.finger
    /\ UNCHANGED <<program, data_arrays, next_array_id, stdin, stdout, loaded_from>>

Nand ==
    /\ Fetched("Nand")
    /\ LET x_val == read_register(Inst.x)
           y_val == read_register(Inst.y)
           result == nand(x_val.val, y_val.val)
           set == set_register(registers, Inst.dest, result)
           errs == <<x_val.err, y_val.err, set.err>>
       IN  /\ registers' = IF FirstErr(errs) = None THEN set.regs ELSE registers
           /\ Finish(Result(errs))
    /\ finger' = fetch_instruction.finger
    /\ UNCHANGED <<program, data_arrays, next_array_id, stdin, stdout, loaded_from>>

Halt ==
    /\ Fetched("Halt")
    /\ finger' = fetch_instruction.finger
    /\ Finish("No")
    /\ UNCHANGED <<registers, program, data_arrays, next_array_id, stdin, stdout, loaded_from>>

\* The insert comes before set_register and the counter after it: an error of
\* set_register would leave the array inserted and the counter as it was.
Allocate ==
    /\ Fetched("Allocate")
    /\ LET size_val == read_register(Inst.size)
           new_array == zeros(size_val.val)
           set == set_register(registers, Inst.result, next_array_id)
           errs == <<size_val.err, set.err>>
       IN  /\ data_arrays' = IF size_val.err = None
                             THEN insert(data_arrays, next_array_id, new_array)
                             ELSE data_arrays
           /\ registers' = IF FirstErr(errs) = None THEN set.regs ELSE registers
           /\ next_array_id' = IF FirstErr(errs) = None
                               THEN advance_array_id(next_array_id)
                               ELSE next_array_id
           /\ Finish(Result(errs))
    /\ finger' = fetch_instruction.finger
    /\ UNCHANGED <<program, stdin, stdout, loaded_from>>

Abandon ==
    /\ Fetched("Abandon")
    /\ LET which_val == read_register(Inst.which)
           removed == abandon(which_val.val)
       IN  /\ data_arrays' = IF which_val.err = None THEN removed.data_arrays ELSE data_arrays
           /\ Finish(Result(<<which_val.err, removed.err>>))
    /\ finger' = fetch_instruction.finger
    /\ UNCHANGED <<registers, program, next_array_id, stdin, stdout, loaded_from>>

Output ==
    /\ Fetched("Output")
    /\ Len(stdout) < MaxOutputLen
    /\ LET val_val == read_register(Inst.val)
           ok == val_val.err = None /\ val_val.val <= MaxOutput
           written == IF ok THEN utf8(val_val.val) ELSE <<>>
       IN  /\ stdout' = stdout \o written
           /\ FinishOut(IF val_val.err # None THEN val_val.err
                        ELSE IF ok THEN "Yes" ELSE "InvalidOutput", written)
    /\ finger' = fetch_instruction.finger
    /\ UNCHANGED <<registers, program, data_arrays, next_array_id, stdin, loaded_from>>

\* The read of the byte may fail (failed): result.ok() then gives None, as at
\* end of input, and no byte is taken.
Input ==
    /\ Fetched("Input")
    /\ \E failed \in BOOLEAN :
       LET input == IF failed THEN [some |-> FALSE, byte |-> 0, rest |-> stdin]
                    ELSE read_byte
           set == set_register(registers, Inst.dest, IF input.some THEN input.byte ELSE MaxWord)
       IN  /\ stdin' = input.rest
           /\ registers' = set.regs
           /\ Finish(Result(<<set.err>>))
    /\ finger' = fetch_instruction.finger
    /\ UNCHANGED <<program, data_arrays, next_array_id, stdout, loaded_from>>

LoadProgram ==
    /\ Fetched("LoadProgram")
    /\ LET array_id == read_register(Inst.from)
           finger_val == read_register(Inst.finger)
           read_errs == <<array_id.err, finger_val.err>>
           loaded == load_program(array_id.val, finger_val.val, fetch_instruction.finger)
           ok == FirstErr(read_errs) = None
       IN  /\ program' = IF ok THEN loaded.program ELSE program
           /\ finger' = IF ok THEN loaded.finger ELSE fetch_instruction.finger
           /\ loaded_from' = IF ok /\ loaded.err = None /\ array_id.val # 0
                             THEN array_id.val
                             ELSE loaded_from
           /\ Finish(Result(read_errs \o <<loaded.err>>))
    /\ UNCHANGED <<registers, data_arrays, next_array_id, stdin, stdout>>

LoadRegister ==
    /\ Fetched("LoadRegister")
    /\ LET set == set_register(registers, Inst.dest, Inst.val)
       IN  /\ registers' = set.regs
           /\ Finish(Result(<<set.err>>))
    /\ finger' = fetch_instruction.finger
    /\ UNCHANGED <<program, data_arrays, next_array_id, stdin, stdout, loaded_from>>

Next ==
    \/ FetchNone
    \/ DecodeError
    \/ ConditionalMove
    \/ ArrayIndex
    \/ ArrayAmend
    \/ Add
    \/ Multiply
    \/ Divide
    \/ Nand
    \/ Halt
    \/ Allocate
    \/ Abandon
    \/ Output
    \/ Input
    \/ LoadProgram
    \/ LoadRegister

\* ------------------------------------------------------- the initial states
\* The sequences over S of length at most n.
SeqsUpTo(S, n) == UNION {[1..k -> S] : k \in 0..n}

\* The words of the generated programs: every operator that touches the arrays, the
\* finger or the channels, on registers 0 (never written by these words), 1 and 2.
InstrWords ==
    { EncLoad(1, 1),        \* r1 <- 1
      EncLoad(2, 2),        \* r2 <- 2
      Enc(6, 1, 0, 0),      \* r1 <- Nand(r0, r0)
      Enc(8, 0, 1, 2),      \* r1 <- Allocate(size r2)
      Enc(9, 0, 0, 1),      \* Abandon r1
      Enc(1, 2, 1, 2),      \* r2 <- Arrays[r1][r2]
      Enc(2, 1, 2, 1),      \* Arrays[r1][r2] <- r1
      Enc(12, 0, 1, 2),     \* LoadProgram from r1, finger r2
      Enc(10, 0, 0, 1),     \* Output r1
      Enc(11, 0, 0, 1),     \* r1 <- Input
      Enc(7, 0, 0, 0),      \* Halt
      Enc(14, 0, 0, 0) }    \* no operator

GenPrograms == SeqsUpTo(InstrWords, MaxProgLen)

InputBytes == {65, 200}
Inputs == SeqsUpTo(InputBytes, MaxInputLen)

\* Exercises the arithmetic operators and ends dividing by zero.
ArithProgram ==
    << EncLoad(1, 5),       \* r1 <- 5
       EncLoad(2, 3),       \* r2 <- 3
       Enc(3, 3, 1, 2),     \* r3 <- r1 + r2
       Enc(4, 4, 3, 3),     \* r4 <- r3 * r3
       Enc(6, 5, 0, 0),     \* r5 <- Nand(r0, r0), all ones
       Enc(3, 6, 5, 1),     \* r6 <- r5 + r1, wraps
       Enc(4, 7, 5, 5),     \* r7 <- r5 * r5, wraps
       Enc(5, 3, 5, 2),     \* r3 <- r5 / r2
       Enc(0, 4, 1, 2),     \* if r2 # 0 then r4 <- r1
       Enc(0, 4, 2, 0),     \* if r0 # 0 then r4 <- r2
       Enc(10, 0, 0, 6),    \* Output r6
       Enc(5, 3, 1, 0),     \* r3 <- r1 / r0
       Enc(7, 0, 0, 0) >>   \* Halt
 
\* Allocates two arrays, fills the second with four words of its own and replaces
\* the program by it; the replaced program then amends the array it was loaded
\* from, overwrites its own last word, an unknown instruction, with a Halt, and
\* abandons the array.
SelfLoadProgram ==
    << EncLoad(2, 4),       \*  0: r2 <- 4
       Enc(8, 0, 3, 2),     \*  1: r3 <- Allocate(size r2), an array that stays aside
       Enc(8, 0, 1, 2),     \*  2: r1 <- Allocate(size r2)
       EncLoad(6, 22),      \*  3: r6 <- 22
       Enc(1, 5, 0, 6),     \*  4: r5 <- program[r6]
       EncLoad(7, 0),       \*  5: r7 <- 0
       Enc(2, 1, 7, 5),     \*  6: Arrays[r1][r7] <- r5
       EncLoad(6, 23),      \*  7: r6 <- 23
       Enc(1, 5, 0, 6),     \*  8: r5 <- program[r6]
       EncLoad(7, 1),       \*  9: r7 <- 1
       Enc(2, 1, 7, 5),     \* 10: Arrays[r1][r7] <- r5
       EncLoad(6, 24),      \* 11: r6 <- 24
       Enc(1, 5, 0, 6),     \* 12: r5 <- program[r6]
       EncLoad(7, 2),       \* 13: r7 <- 2
       Enc(2, 1, 7, 5),     \* 14: Arrays[r1][r7] <- r5
       EncLoad(6, 25),      \* 15: r6 <- 25
       Enc(1, 5, 0, 6),     \* 16: r5 <- program[r6]
       EncLoad(7, 3),       \* 17: r7 <- 3
       Enc(2, 1, 7, 5),     \* 18: Arrays[r1][r7] <- r5
       EncLoad(6, 26),      \* 19: r6 <- 26
       Enc(1, 5, 0, 6),     \* 20: r5 <- program[r6], the Halt
       Enc(12, 0, 1, 0),    \* 21: LoadProgram from r1, finger r0
       Enc(2, 1, 0, 0),     \* 22: Arrays[r1][r0] <- r0
       Enc(2, 0, 7, 5),     \* 23: Arrays[r0][r7] <- r5
       Enc(9, 0, 0, 1),     \* 24: Abandon r1
       Enc(14, 0, 0, 0),    \* 25: unknown instruction
       Enc(7, 0, 0, 0) >>   \* 26: Halt

\* Keeps array 1 live and allocates and abandons a second array in a loop, until
\* the id counter has passed the maximum word value.
WrapProgram ==
    << EncLoad(3, 4),       \* 0: r3 <- 4
       EncLoad(2, 1),       \* 1: r2 <- 1
       Enc(8, 0, 1, 2),     \* 2: r1 <- Allocate(size r2)
       Enc(2, 1, 0, 3),     \* 3: Arrays[r1][r0] <- r3
       Enc(8, 0, 4, 0),     \* 4: r4 <- Allocate(size r0)
       Enc(1, 3, 1, 0),     \* 5: r3 <- Arrays[r1][r0]
       Enc(9, 0, 0, 4),     \* 6: Abandon r4
       Enc(12, 0, 0, 3) >>  \* 7: LoadProgram from r0, finger r3

\* The operands of the arithmetic programs: immediates, and their complements.
ArithOperands == {0, 1, 2, 3, LoadRegShift - 1}

\* Loads r1 and r2 with an operand each, or with its complement (Nand of the
\* register with itself), and applies one operator to them: r3 <- r1 op r2.
ArithPrograms ==
    { <<EncLoad(1, x)>> \o (IF nx THEN <<Enc(6, 1, 1, 1)>> ELSE <<>>)
        \o <<EncLoad(2, y)>> \o (IF ny THEN <<Enc(6, 2, 2, 2)>> ELSE <<>>)
        \o <<Enc(op, 3, 1, 2)>> :
      <<x, nx, y, ny, op>> \in
          ArithOperands \X BOOLEAN \X ArithOperands \X BOOLEAN \X {0, 3, 4, 5, 6} }

\* Every word as a program of one instruction.
OneWordPrograms == { <<word>> : word \in Word }

\* The runs checked: a program image and the bytes of standard input.
Runs ==
    [program : GenPrograms, stdin : Inputs]
        \cup [program : {ArithProgram, SelfLoadProgram, WrapProgram}
                            \cup ArithPrograms \cup OneWordPrograms,
              stdin : {<<>>}]

\* Machine::new on the program image, before execute.
Init ==
    /\ \E run \in Runs :
          /\ program = run.program
          /\ stdin = run.stdin
    /\ finger = 0
    /\ registers = [r \in Reg |-> 0]
    /\ data_arrays = <<>>
    /\ next_array_id = 1
    /\ stdout = <<>>
    /\ status = "running"
    /\ error = None
    /\ last = [inst |-> [tag |-> "None"], res |-> "Yes", regs |-> [r \in Reg |-> 0],
               prev |-> "None"]
    /\ loaded_from = 0
    /\ flushed = 0
    /\ program_bytes = <<>>

Spec == Init /\ [][Next]_vars

\* ------------------------------------------------- loading the program image
ByteMod == Pow2(ByteBits)

\* load_program_from_bytes that stops at the last whole word of the image.
load_program_from_bytes_drops_tail(bytes) ==
    LET word(i) == bytes[i * 4 + 4] + bytes[i * 4 + 3] * ByteMod
                    + bytes[i * 4 + 2] * ByteMod * ByteMod
                    + bytes[i * 4 + 1] * ByteMod * ByteMod * ByteMod
    IN  [n \in 1..(Len(bytes) \div 4) |-> word(n - 1)]

\* Machine::load_program_from_bytes: big-endian words of four bytes, the bytes
\* the image lacks for its last word taken as 0. Indices are 0-based as in the code.
load_program_from_bytes(bytes) ==
    LET len == Len(bytes)
        num_words == IF len % 4 = 0 THEN len \div 4 ELSE len \div 4 + 1
        word(i) ==
            LET a == bytes[i * 4 + 1]
                b == IF i * 4 + 1 < len THEN bytes[i * 4 + 2] ELSE 0
                c == IF i * 4 + 2 < len THEN bytes[i * 4 + 3] ELSE 0
                d == IF i * 4 + 3 < len THEN bytes[i * 4 + 4] ELSE 0
            IN  d + c * ByteMod + b * ByteMod * ByteMod + a * ByteMod * ByteMod * ByteMod
    IN  [n \in 1..num_words |-> word(n - 1)]

\* The values of the bytes of the images checked.
ImageBytes == {0, 1, ByteMod - 1}

\* The images checked: every sequence of those bytes up to the longest.
Images == SeqsUpTo(ImageBytes, MaxImageLen)

\* main has read the image; Machine::new has not been called yet.
LoadInit ==
    /\ program_bytes \in Images
    /\ program = <<>>
    /\ status = "new"
    /\ stdin = <<>>
    /\ finger = 0
    /\ registers = [r \in Reg |-> 0]
    /\ data_arrays = <<>>
    /\ next_array_id = 1
    /\ stdout = <<>>
    /\ error = None
    /\ last = [inst |-> [tag |-> "None"], res |-> "Yes", regs |-> [r \in Reg |-> 0],
               prev |-> "None"]
    /\ loaded_from = 0
    /\ flushed = 0

\* Machine::new: the program is the words of the image.
LoadImage ==
    /\ status = "new"
    /\ program' = load_program_from_bytes(program_bytes)
    /\ status' = "running"
    /\ UNCHANGED <<finger, registers, data_arrays, next_array_id, stdin, stdout,
                   error, last, loaded_from, flushed, program_bytes>>

LoadNext == LoadImage

LoadSpec == LoadInit /\ [][LoadNext]_vars

\* ================================================================ claims
\* The step is one of the machine's, and it executes the variant tag.
Executes(tag) == Fetched(tag) /\ (tag = "Output" => Len(stdout) < MaxOutputLen)

\* The last step executed the variant tag with result res.
Executed(tag, res) == last.inst.tag = tag /\ last.res = res

\* Every array live before the step is live after it, with the same contents.
LiveArraysKept ==
    \A j \in DOMAIN data_arrays :
        j \in DOMAIN data_arrays' /\ data_arrays'[j] = data_arrays[j]

\* C1: every Allocate that executes, also after the id counter has passed the
\* maximum word value, stores in reg[B] an id that is not 0 and was not the key of
\* a live array just before, and no array that was live is replaced or changed.
C1_AllocateReturnsFreshId ==
    [][Executes("Allocate") =>
          /\ registers'[Inst.result] # 0
          /\ registers'[Inst.result] \notin DOMAIN data_arrays
          /\ LiveArraysKept]_vars

\* C2: in every reachable state the table of heap arrays has no entry under key 0
\* and the id counter next_array_id is not 0.
C2_NoArrayUnderKeyZero ==
    /\ 0 \notin DOMAIN data_arrays
    /\ next_array_id # 0
    /\ next_array_id \in Word

\* C2's case: an Allocate has handed out the maximum word value as an id and the
\* counter has wrapped around, over 0, to 1.
C2_Witness ==
    /\ Executed("Allocate", "Yes")
    /\ registers[last.inst.result] = MaxWord
    /\ next_array_id = 1

\* C3: an Output with reg[C] in 0..255 (128..255 included) makes the output stream
\* one byte longer, and that byte is reg[C]; an Output with reg[C] > 255 fails with
\* InvalidOutput and the output stream does not grow.
C3_OutputEmitsOneByte ==
    [][Executes("Output") =>
          IF registers[Inst.val] <= 255
          THEN /\ stdout' = Append(stdout, registers[Inst.val])
               /\ status' = "running"
          ELSE /\ stdout' = stdout
               /\ status' = "error"
               /\ error' = "InvalidOutput"]_vars

\* C4: once the program has been replaced from heap array k # 0, an ArrayAmend that
\* writes to array k, and an Abandon of k, leave every word of the program as it was.
C4_ProgramNotSharedWithSource ==
    [][(/\ loaded_from # 0
        /\ \/ Executes("ArrayAmend") /\ registers[Inst.array] = loaded_from
           \/ Executes("Abandon") /\ registers[Inst.which] = loaded_from)
       => program' = program]_vars

\* C4's case: the program was loaded from array k, and an ArrayAmend has then
\* written to array k a word that differs from the program's word at that offset.
C4_Witness ==
    /\ Executed("ArrayAmend", "Yes")
    /\ loaded_from # 0
    /\ last.regs[last.inst.array] = loaded_from
    /\ loaded_from \in DOMAIN data_arrays
    /\ LET o == last.regs[last.inst.offset]
       IN  /\ o < Len(program)
           /\ data_arrays[loaded_from][o + 1] # program[o + 1]

\* C5: a LoadProgram with k = reg[B] # 0: when k is live, the program becomes equal
\* to array k, word for word and in length, the finger becomes reg[C], array k and
\* every other heap array and all registers are unchanged; when k is not live the
\* result is InvalidArrayId.
C5_LoadProgramCopiesArray ==
    [][(Executes("LoadProgram") /\ registers[Inst.from] # 0) =>
          LET k == registers[Inst.from]
          IN  IF k \in DOMAIN data_arrays
              THEN /\ Len(program') = Len(data_arrays[k])
                   /\ \A i \in 1..Len(data_arrays[k]) : program'[i] = data_arrays[k][i]
                   /\ finger' = registers[Inst.finger]
                   /\ data_arrays' = data_arrays
                   /\ registers' = registers
                   /\ status' = "running"
              ELSE /\ status' = "error"
                   /\ error' = "InvalidArrayId"]_vars

\* C5's case: a LoadProgram has replaced the program by a live array of at least
\* two words, not all of them 0, and has set the finger.
C5_Witness ==
    /\ Executed("LoadProgram", "Yes")
    /\ last.regs[last.inst.from] # 0
    /\ loaded_from = last.regs[last.inst.from]
    /\ Len(program) >= 2
    /\ program = data_arrays[loaded_from]
    /\ \E i \in 1..Len(program) : program[i] # 0
    /\ finger = last.regs[last.inst.finger]
    /\ status = "running"

\* C6: a LoadProgram with reg[B] = 0 changes the finger to reg[C], which is the
\* offset the next fetch reads, and nothing else: the program, the registers, the
\* table of heap arrays and the id counter are unchanged.
C6_LoadProgramZeroOnlyJumps ==
    [][(Executes("LoadProgram") /\ registers[Inst.from] = 0) =>
          /\ finger' = registers[Inst.finger]
          /\ status' = "running"
          /\ UNCHANGED <<program, registers, data_arrays, next_array_id, stdin, stdout>>
          /\ (registers[Inst.finger] < Len(program) =>
                 /\ fetch_instruction'.some
                 /\ fetch_instruction'.word = program[registers[Inst.finger] + 1])]_vars

\* C6's case: a LoadProgram with reg[B] = 0 has moved the finger backwards to
\* reg[C], an offset within the program and not the offset after the instruction.
C6_Witness ==
    /\ Executed("LoadProgram", "Yes")
    /\ last.regs[last.inst.from] = 0
    /\ finger = last.regs[last.inst.finger]
    /\ finger > 0
    /\ finger < Len(program)

\* The step names the id k to ArrayIndex, ArrayAmend, LoadProgram or Abandon.
NamesArray(k) ==
    \/ Executes("ArrayIndex") /\ registers[Inst.array] = k
    \/ Executes("ArrayAmend") /\ registers[Inst.array] = k
    \/ Executes("LoadProgram") /\ registers[Inst.from] = k
    \/ Executes("Abandon") /\ registers[Inst.which] = k

\* C7: Abandon with k = reg[C] fails with CannotAbandonProgram when k = 0 and with
\* InvalidArrayId when k is not live; otherwise it removes k from the table and
\* changes nothing else.  An id that is not live becomes live only by an Allocate
\* that returns it, and while it is not live every ArrayIndex, ArrayAmend,
\* LoadProgram and Abandon that names it fails with InvalidArrayId.
C7_AbandonAndDeadIds ==
    [][/\ Executes("Abandon") =>
             LET k == registers[Inst.which]
             IN  IF k = 0
                 THEN /\ status' = "error"
                      /\ error' = "CannotAbandonProgram"
                      /\ data_arrays' = data_arrays
                 ELSE IF k \notin DOMAIN data_arrays
                 THEN /\ status' = "error"
                      /\ error' = "InvalidArrayId"
                      /\ data_arrays' = data_arrays
                 ELSE /\ status' = "running"
                      /\ DOMAIN data_arrays' = DOMAIN data_arrays \ {k}
                      /\ \A j \in DOMAIN data_arrays' : data_arrays'[j] = data_arrays[j]
                      /\ finger' = finger + 1
                      /\ UNCHANGED <<registers, program, next_array_id, stdin, stdout>>
       /\ \A k \in DOMAIN data_arrays' \ DOMAIN data_arrays :
             Executes("Allocate") /\ registers'[Inst.result] = k
       /\ \A k \in {registers[r] : r \in Reg} \ ({0} \cup DOMAIN data_arrays) :
             NamesArray(k) => status' = "error" /\ error' = "InvalidArrayId"]_vars

\* C7's case: an array was allocated and abandoned, and an ArrayIndex that names
\* its id has then failed with InvalidArrayId.
C7_Witness ==
    /\ Executed("ArrayIndex", "InvalidArrayId")
    /\ last.regs[last.inst.array] # 0
    /\ last.regs[last.inst.array] < next_array_id
    /\ status = "error"

\* C8: a decode error or an operator error ends the run in the status error, with
\* that error and a non-zero exit status; running, halted and error are the only
\* statuses, and in the statuses halted and error no step is taken: nothing is
\* fetched, executed, written or read any more.
C8_ErrorsAreTerminal ==
    [][/\ status = "running"
       /\ status' \in {"running", "halted", "error"}
       /\ IsErr(last'.res) <=> status' = "error"
       /\ status' = "error" => error' = last'.res /\ exit_code' # 0
       /\ status' # "error" => error' = None /\ exit_code' = 0]_vars

\* C8's case: an operator has failed while the finger was inside the program, the
\* run has ended with that error, and the words after it were not executed.
C8_Witness ==
    /\ status = "error"
    /\ error = "DivideByZero"
    /\ exit_code # 0
    /\ last.inst.tag = "Divide"
    /\ finger < Len(program)
    /\ ~ENABLED Next

\* C9: a fetch with finger >= len(program) ends the run normally, without an error
\* and without executing anything, and so does Halt.
C9_FetchPastEndHaltsNormally ==
    [][/\ (status = "running" /\ finger >= Len(program)) =>
             /\ status' = "halted"
             /\ error' = None
             /\ exit_code' = 0
             /\ UNCHANGED <<finger, registers, program, data_arrays, next_array_id,
                            stdin, stdout>>
       /\ Executes("Halt") =>
             /\ status' = "halted"
             /\ error' = None
             /\ exit_code' = 0
             /\ UNCHANGED <<registers, program, data_arrays, next_array_id,
                            stdin, stdout>>]_vars

\* C9's case: a LoadProgram has replaced the program and set a finger that is out
\* of the new program's range, and the fetch right after it has ended the run
\* normally.
C9_Witness ==
    /\ status = "halted"
    /\ error = None
    /\ last.inst.tag = "None"
    /\ last.prev = "LoadProgram"
    /\ loaded_from # 0
    /\ finger >= Len(program)
    /\ Len(program) > 0

\* What the claim C10 says an access to offset o of array i returns.
AccessResult(i, o) ==
    IF i = 0
    THEN IF o < Len(program) THEN "Yes" ELSE "ProgramOutOfRange"
    ELSE IF i \notin DOMAIN data_arrays THEN "InvalidArrayId"
    ELSE IF o < Len(data_arrays[i]) THEN "Yes" ELSE "ArrayOutOfRange"

\* C10: ArrayIndex and ArrayAmend with id i and offset o: with i = 0 they succeed
\* exactly when o < len(program) and fail with ProgramOutOfRange otherwise; with
\* i # 0 not live they fail with InvalidArrayId; with i # 0 live they succeed
\* exactly when o < len(array i) and fail with ArrayOutOfRange otherwise.  Allocate
\* with size 0 succeeds and yields an array of length 0.
C10_ArrayAccessErrors ==
    [][/\ Executes("ArrayIndex") =>
             last'.res = AccessResult(registers[Inst.array], registers[Inst.offset])
       /\ Executes("ArrayAmend") =>
             last'.res = AccessResult(registers[Inst.array], registers[Inst.offset])
       /\ (Executes("ArrayIndex") \/ Executes("ArrayAmend")) =>
             status' = IF last'.res = "Yes" THEN "running" ELSE "error"
       /\ (Executes("Allocate") /\ registers[Inst.size] = 0) =>
             /\ last'.res = "Yes"
             /\ registers'[Inst.result] \in DOMAIN data_arrays'
             /\ Len(data_arrays'[registers'[Inst.result]]) = 0]_vars

\* C10's case: an Allocate of size 0 has succeeded, and an ArrayIndex into the
\* array it returned has failed with ArrayOutOfRange.
C10_Witness ==
    /\ Executed("ArrayIndex", "ArrayOutOfRange")
    /\ last.regs[last.inst.array] \in DOMAIN data_arrays
    /\ Len(data_arrays[last.regs[last.inst.array]]) = 0
    /\ status = "error"

\* C11: from its Allocate to its Abandon a heap array keeps the length it was
\* allocated with, it is all zeros right after the Allocate, and its contents
\* change only by an ArrayAmend whose array register holds its id: no other step,
\* an Allocate or a LoadProgram included, changes the length or the contents of
\* an array that is live before and after it.
C11_ArrayFixedUntilAbandon ==
    [][ /\ \A id \in DOMAIN data_arrays \cap DOMAIN data_arrays' :
             /\ Len(data_arrays'[id]) = Len(data_arrays[id])
             /\ data_arrays'[id] # data_arrays[id]
                    => Executes("ArrayAmend") /\ registers[Inst.array] = id
        /\ \A id \in DOMAIN data_arrays' \ DOMAIN data_arrays :
             /\ Executes("Allocate")
             /\ Len(data_arrays'[id]) = registers[Inst.size]
             /\ \A i \in 1..Len(data_arrays'[id]) : data_arrays'[id][i] = 0 ]_vars

\* C12: output and input happen in program order: each Output that succeeds
\* appends the value of its register to the output stream and no other step
\* changes the stream; the input stream changes only by an Input taking its first
\* byte into its register; and when an Input executes, every byte the Outputs
\* before it have written has left the process (is observable on the channel).
C12_IoInProgramOrder ==
    [][ /\ IF Executes("Output") /\ last'.res = "Yes"
           THEN stdout' = Append(stdout, registers[Inst.val])
           ELSE stdout' = stdout
        /\ stdin' # stdin =>
             /\ Executes("Input")
             /\ stdin' = Tail(stdin)
             /\ registers'[Inst.dest] = Head(stdin)
        /\ Executes("Input") => flushed = Len(stdout) ]_vars

\* C13: a Divide whose divisor reg[C] is not 0 sets reg[A] to the quotient of
\* reg[B] by reg[C] rounded down (the q with q * reg[C] <= reg[B] < (q + 1) * reg[C]),
\* changes no other register and goes on; a Divide whose divisor is 0 fails with
\* DivideByZero and leaves every register, reg[A] included, as it was.
C13_DivideQuotientOrError ==
    [][ Executes("Divide") =>
          LET x == registers[Inst.x]
              y == registers[Inst.y]
              q == registers'[Inst.dest]
          IN  IF y # 0
              THEN /\ status' = "running"
                   /\ q * y <= x /\ x < (q + 1) * y
                   /\ \A r \in Reg \ {Inst.dest} : registers'[r] = registers[r]
              ELSE /\ status' = "error"
                   /\ error' = "DivideByZero"
                   /\ registers' = registers ]_vars

\* A division by 0 has failed, with a dividend that is not 0 and a destination
\* register that held a value and still holds it.
C13_Witness ==
    /\ Executed("Divide", "DivideByZero")
    /\ last.regs[last.inst.x] # 0
    /\ last.regs[last.inst.dest] # 0
    /\ registers[last.inst.dest] = last.regs[last.inst.dest]

\* The register indices an instruction carries: all its fields but the variant
\* tag, the immediate of LoadRegister and the word of an unknown instruction.
RegisterFields(inst) ==
    { inst[f] : f \in DOMAIN inst \ ({"tag", "inst"} \cup
                     IF inst.tag = "LoadRegister" THEN {"val"} ELSE {}) }

\* C14: every register index of the instruction a fetched word decodes to is in
\* 0..7, and no step of any run has failed with InvalidRegisterIndex.
C14_RegisterIndicesInRange ==
    /\ (status = "running" /\ fetch_instruction.some) => RegisterFields(Inst) \subseteq Reg
    /\ RegisterFields(last.inst) \subseteq Reg
    /\ error # "InvalidRegisterIndex"
    /\ last.res # "InvalidRegisterIndex"

\* An instruction whose three register fields are all 7 has been executed, and
\* it wrote register 7.
C14_Witness ==
    /\ Executed("Nand", "Yes")
    /\ last.inst.dest = 7 /\ last.inst.x = 7 /\ last.inst.y = 7
    /\ registers[7] = MaxWord

\* C15: the instruction decoded from a fetched word w agrees with the opcode
\* table: the top four bits of w select the operator; operators 0..12 take their
\* operands from the three low fields A = bits 6..8, B = bits 3..5, C = bits 0..2
\* in the roles the table gives; operator 13 takes its register from the three
\* bits under the operator number and its immediate from all the bits under
\* those; operator numbers 14 and 15 fail with UnknownInstruction and the step
\* runs no operator: registers, arrays, id counter and both streams are unchanged.
C15_DecodeAgreesWithTable ==
    [][ (status = "running" /\ fetch_instruction.some) =>
          LET w == fetch_instruction.word
              op == w \div OpShift
              A == (w \div 64) % 8
              B == (w \div 8) % 8
              C == w % 8
              tags == <<"ConditionalMove", "ArrayIndex", "ArrayAmend", "Add", "Multiply",
                        "Divide", "Nand", "Halt", "Allocate", "Abandon", "Output",
                        "Input", "LoadProgram", "LoadRegister">>
          IN  /\ op <= 13 => Inst.tag = tags[op + 1]
              /\ op = 0 => <<Inst.dest, Inst.src, Inst.test>> = <<A, B, C>>
              /\ op = 1 => <<Inst.dest, Inst.array, Inst.offset>> = <<A, B, C>>
              /\ op = 2 => <<Inst.array, Inst.offset, Inst.val>> = <<A, B, C>>
              /\ op \in 3..6 => <<Inst.dest, Inst.x, Inst.y>> = <<A, B, C>>
              /\ op = 8 => <<Inst.result, Inst.size>> = <<B, C>>
              /\ op = 9 => Inst.which = C
              /\ op = 10 => Inst.val = C
              /\ op = 11 => Inst.dest = C
              /\ op = 12 => <<Inst.from, Inst.finger>> = <<B, C>>
              /\ op = 13 => /\ Inst.dest = (w \div LoadRegShift) % 8
                            /\ Inst.val = w - (w \div LoadRegShift) * LoadRegShift
              /\ op >= 14 => /\ status' = "error"
                             /\ error' = "UnknownInstruction"
                             /\ UNCHANGED <<registers, program, data_arrays,
                                            next_array_id, stdin, stdout>> ]_vars

\* The word of operator 1 with A = 3, B = 1, C = 2 has been executed as an
\* ArrayIndex with destination 3, array register 1 and offset register 2: with
\* both registers 0 it read the word itself from the program.
C15_Witness ==
    /\ Executed("ArrayIndex", "Yes")
    /\ last.inst.dest = 3 /\ last.inst.array = 1 /\ last.inst.offset = 2
    /\ program = <<Enc(1, 3, 1, 2)>>
    /\ registers[3] = Enc(1, 3, 1, 2)

\* C16: an Input either takes the first byte of the input stream, and exactly
\* that one, and sets reg[C] to its value, which is in 0..255, or, at the end of
\* the input or when the read fails, takes nothing and sets reg[C] to the word
\* of all ones; at the end of the input it does the latter. In both cases the
\* machine goes on, and no other register, no array, and neither the program nor
\* the id counter changes.
C16_InputReadsOneByteOrAllOnes ==
    [][ Executes("Input") =>
          /\ status' = "running"
          /\ \A r \in Reg \ {Inst.dest} : registers'[r] = registers[r]
          /\ UNCHANGED <<program, data_arrays, next_array_id, stdout>>
          /\ \/ /\ stdin # <<>>
                /\ stdin' = Tail(stdin)
                /\ registers'[Inst.dest] = Head(stdin)
                /\ registers'[Inst.dest] \in 0..255
             \/ /\ stdin' = stdin
                /\ registers'[Inst.dest] = MaxWord
          /\ registers'[Inst.dest] # MaxWord => stdin # <<>> ]_vars

\* An Input has taken the byte 200 into a register that held another value and has
\* left the input empty, and the machine is running.
C16_Witness ==
    /\ Executed("Input", "Yes")
    /\ registers[last.inst.dest] = 200
    /\ last.regs[last.inst.dest] # 200
    /\ stdin = <<>>
    /\ status = "running"

\* C17: an Add sets reg[A] to the sum of reg[B] and reg[C] reduced modulo the
\* word range, a Multiply to their product reduced modulo the word range: the
\* result is a word that differs from the exact sum or product by a multiple of
\* the size of the word range; the step never fails, and every register holds a
\* word afterwards.
C17_AddMultiplyWrap ==
    [][ (Executes("Add") \/ Executes("Multiply")) =>
          LET x == registers[Inst.x]
              y == registers[Inst.y]
              exact == IF Inst.tag = "Add" THEN x + y ELSE x * y
              r == registers'[Inst.dest]
          IN  /\ status' = "running"
              /\ r \in Word
              /\ r <= exact
              /\ \E k \in 0..MaxWord : exact = r + k * WordMod
              /\ \A i \in Reg \ {Inst.dest} : registers'[i] = registers[i] ]_vars

\* A Multiply whose exact product is beyond the word range has been executed.
C17_Witness ==
    /\ Executed("Multiply", "Yes")
    /\ last.regs[last.inst.x] * last.regs[last.inst.y] > MaxWord
    /\ registers[last.inst.dest] \in Word

\* C18: the program Machine::new makes of an image of n bytes has the least
\* number of words whose four-byte slots hold n bytes, and its word i is the
\* big-endian value of the bytes 4i, 4i+1, 4i+2, 4i+3 of the image, a byte beyond
\* the end of the image counting as 0; this for every length, 0 and the lengths
\* that are not multiples of 4 included.
C18_ImageToWords ==
    status = "running" =>
        LET n == Len(program_bytes)
            byte(k) == IF k < n THEN program_bytes[k + 1] ELSE 0
        IN  /\ 4 * Len(program) >= n
            /\ 4 * (Len(program) - 1) < n
            /\ \A i \in 0..(Len(program) - 1) :
                 program[i + 1] = ((byte(4 * i) * ByteMod + byte(4 * i + 1)) * ByteMod
                                      + byte(4 * i + 2)) * ByteMod + byte(4 * i + 3)

\* An image of five bytes has been loaded: two words, the second one made of the
\* fifth byte, which is not 0, followed by three zero bytes.
C18_Witness ==
    /\ status = "running"
    /\ Len(program_bytes) = 5
    /\ program_bytes[5] = ByteMod - 1
    /\ Len(program) = 2
    /\ program[2] = (ByteMod - 1) * ByteMod * ByteMod * ByteMod

\* C19: a step that fails, with any of the errors UnknownInstruction,
\* ProgramOutOfRange, ArrayOutOfRange, InvalidArrayId, DivideByZero,
\* CannotAbandonProgram and InvalidOutput, leaves the registers, the program, the
\* table of the heap arrays and the id counter as they were before the fetch, and
\* the finger one past the word fetched.
C19_ErrorsAreAtomic ==
    [][ (status = "running" /\ IsErr(last'.res)) =>
          /\ last'.res \in {"UnknownInstruction", "ProgramOutOfRange", "ArrayOutOfRange",
                            "InvalidArrayId", "DivideByZero", "CannotAbandonProgram",
                            "InvalidOutput"}
          /\ UNCHANGED <<registers, program, data_arrays, next_array_id>>
          /\ finger' = finger + 1 ]_vars

\* A LoadProgram has failed on an id that is not live, with a finger register
\* that points elsewhere than the next word: the finger is one past the
\* LoadProgram, and the registers are as before.
C19_Witness ==
    /\ Executed("LoadProgram", "InvalidArrayId")
    /\ status = "error"
    /\ registers = last.regs
    /\ last.regs[last.inst.finger] # finger
    /\ finger > 1
    /\ program[finger] = Enc(12, 0, 1, 2)

\* C20: an ArrayAmend that succeeds changes the word at offset reg[B] of the
\* array reg[A] to reg[C] and nothing else: a write to the program (id 0) leaves
\* every heap array as it was, the array the program was loaded from included; a
\* write to a heap array leaves the program and every other heap array as they
\* were; registers, id counter and streams do not change; and when the word
\* written to the program is at the offset of the next fetch, that fetch reads it.
C20_ArrayAmendWritesOneWord ==
    [][ (Executes("ArrayAmend") /\ last'.res = "Yes") =>
          LET i == registers[Inst.array]
              o == registers[Inst.offset]
              v == registers[Inst.val]
          IN  /\ IF i = 0
                 THEN /\ program' = [program EXCEPT ![o + 1] = v]
                      /\ data_arrays' = data_arrays
                 ELSE /\ data_arrays' = [data_arrays EXCEPT ![i][o + 1] = v]
                      /\ program' = program
              /\ UNCHANGED <<registers, next_array_id, stdin, stdout>>
              /\ (i = 0 /\ o = finger') =>
                     /\ fetch_instruction'.some
                     /\ fetch_instruction'.word = v ]_vars

\* The program, loaded from an array that is still live, has written to itself a
\* word at an offset where the array holds another word, and the array still
\* holds that other word.
C20_Witness ==
    /\ Executed("ArrayAmend", "Yes")
    /\ last.regs[last.inst.array] = 0
    /\ loaded_from \in DOMAIN data_arrays
    /\ LET o == last.regs[last.inst.offset]
       IN  /\ program[o + 1] = last.regs[last.inst.val]
           /\ o < Len(data_arrays[loaded_from])
           /\ data_arrays[loaded_from][o + 1] # program[o + 1]

====
